---- MODULE Spec2Model ----
(***************************************************************************)
(* fits2db: conversion of FITS binary tables to delimited text, IPAC, SQL  *)
(* text and Postgres binary COPY streams (src/fits2db.c).                  *)
(*                                                                         *)
(* The model follows main()'s loop over the input files and the per-file   *)
(* conversion dl_fits2db(): prologue, bundle opener, chunk loop, bundle    *)
(* closer.  The bytes written to an output are kept as a sequence of       *)
(* framing tokens (opener, row, comma, closer); a row token records what   *)
(* the row driver and dl_printCol wrote for it (field count, number of     *)
(* values, serial value).                                                  *)
(***************************************************************************)
EXTENDS Integers, Sequences, FiniteSets, TLC

(***************************************************************************)
(* Bounds of the model.                                                    *)
(***************************************************************************)
MaxFiles  == 3      \* input files on the command line
MaxBundle == 2      \* --bundle=N
MaxRows   == 3      \* rows of one table
MaxOpt    == 2      \* row count advised by fits_get_rowsize
MaxChunk  == 2      \* --chunk=N
NumCols   == 2      \* slots of inColumns[] the tables of the model use

Formats == {"TAB_DELIMITED", "TAB_IPAC", "TAB_POSTGRES", "TAB_MYSQL", "TAB_SQLITE"}

TAB_DBTYPE(t) == t \in {"TAB_POSTGRES", "TAB_MYSQL", "TAB_SQLITE"}

\* The format flags of the command line; "none" leaves DEF_FORMAT.
FormatFlags == {"none", "asv", "bsv", "csv", "tsv", "ipac",
                "postgres", "mysql", "sqlite"}

\* main(): the cases '0'..'5' of the option switch.
FormatOf(flag) ==
    CASE flag = "ipac"     -> "TAB_IPAC"
      [] flag = "mysql"    -> "TAB_MYSQL"
      [] flag = "sqlite"   -> "TAB_SQLITE"
      [] flag = "postgres" -> "TAB_POSTGRES"
      [] OTHER             -> "TAB_DELIMITED"

(***************************************************************************)
(* Columns.  A table column as the FITS reader describes it, and the Col   *)
(* descriptor dl_getColInfo / dl_validateColInfo build from it.            *)
(***************************************************************************)
NoDim == [kind |-> "missing", d1 |-> 0, d2 |-> 0]

FCol(name, type, repeat, width, tdim) ==
    [colname |-> name, type |-> type, repeat |-> repeat, width |-> width,
     dispwidth |-> 4, tdim |-> tdim]

\* A zeroed Col (the global arrays start zeroed; memset (col, 0, ...)).
ZeroCol == [colnum |-> 0, colname |-> "", type |-> "0", repeat |-> 0,
            width |-> 0, dispwidth |-> 0, ndim |-> 0, nrows |-> 0, ncols |-> 0]

\* sscanf (dims, "(%d,%d)", &nrows, &ncols): the number of conversions and
\* the values assigned; a conversion that does not happen leaves its target.
ScanDims(tdim, nrows0, ncols0) ==
    CASE tdim.kind = "two"   -> [n |-> 2, nrows |-> tdim.d1, ncols |-> tdim.d2]
      [] tdim.kind = "three" -> [n |-> 2, nrows |-> tdim.d1, ncols |-> tdim.d2]
      [] tdim.kind = "one"   -> [n |-> 1, nrows |-> tdim.d1, ncols |-> ncols0]
      [] OTHER               -> [n |-> 0, nrows |-> nrows0,  ncols |-> ncols0]

\* The per-column body of the introspection loop.  withDisp is TRUE in
\* dl_getColInfo, which reads the display width, and FALSE in
\* dl_validateColInfo, which leaves it zero.
ColInfo(fc, i, expl, quote, withDisp) ==
    LET base == [colnum |-> i, colname |-> fc.colname, type |-> fc.type,
                 repeat |-> fc.repeat, width |-> fc.width,
                 dispwidth |-> IF withDisp
                               THEN fc.dispwidth +
                                    (IF fc.type = "TSTRING" /\ quote THEN 2 ELSE 0)
                               ELSE 0,
                 ndim |-> 1, nrows |-> 1, ncols |-> fc.repeat]
    IN  IF fc.repeat > 1 /\ fc.type # "TSTRING" /\ expl /\ fc.tdim.kind # "missing"
        THEN LET s == ScanDims(fc.tdim, 1, fc.repeat)
             IN  [base EXCEPT !.ndim = s.n, !.nrows = s.nrows, !.ncols = s.ncols]
        ELSE base

Unsupported(type) == type \in {"TBIT", "TCOMPLEX", "TDBLCOMPLEX"}

\* dl_getColInfo: the descriptors of columns firstcol..lastcol are rebuilt,
\* the other slots of the global array keep what they held.
GetColInfo(fcols, inCols, expl, quote) ==
    [i \in 1..NumCols |->
        IF i <= Len(fcols) THEN ColInfo(fcols[i], i, expl, quote, TRUE)
        ELSE inCols[i]]

\* dl_validateColInfo: the comparison loop; TRUE is the return (1).
ColMismatch(col, icol) ==
    \/ col.colname # icol.colname
    \/ col.type # icol.type
    \/ col.ndim # icol.ndim
    \/ col.nrows # icol.nrows
    \/ /\ col.type # "TSTRING"
       /\ (col.ncols # icol.ncols \/ col.repeat # icol.repeat)

\* A comparison that accepts every table.
ValidateMismatch_Never(fcols, inCols, expl, quote) == FALSE

\* The comparison over columns firstcol..lastcol of the new table.
ValidateMismatch(fcols, inCols, expl, quote) ==
    \E i \in 1..Len(fcols) :
        ColMismatch(ColInfo(fcols[i], i, expl, quote, FALSE), inCols[i])

\* dl_validateColInfo on a match: memcpy of newColumns[0..numCols].
ValidateCopy(fcols, inCols, expl, quote) ==
    [i \in 1..NumCols |->
        IF i <= Len(fcols) THEN ColInfo(fcols[i], i, expl, quote, FALSE)
        ELSE inCols[i]]

\* dl_getOutputCols: output columns one input column expands to.
OutColsOf(expl, c) ==
               IF expl /\ c.repeat > 1 /\ c.type # "TSTRING"
               THEN (IF c.ndim > 1
                     THEN (IF c.nrows > 0 /\ c.ncols > 0 THEN c.nrows * c.ncols ELSE 0)
                     ELSE c.repeat)
               ELSE 1

\* dl_getOutputCols: the names of the output columns of one input column, in
\* the order of outColumns: <<name, i, j>> is name_i_j, <<name, k>> is name_k.
OutColNames_ColumnMajor(expl, c) ==
    IF expl /\ c.repeat > 1 /\ c.type # "TSTRING"
    THEN (IF c.ndim > 1
          THEN [p \in 1..(IF c.nrows > 0 /\ c.ncols > 0 THEN c.nrows * c.ncols ELSE 0) |->
                   <<c.colname, ((p - 1) % c.nrows) + 1, ((p - 1) \div c.nrows) + 1>>]
          ELSE [k \in 1..c.repeat |-> <<c.colname, k>>])
    ELSE << <<c.colname>> >>

OutColNames(expl, c) ==
    IF expl /\ c.repeat > 1 /\ c.type # "TSTRING"
    THEN (IF c.ndim > 1
          THEN [p \in 1..(IF c.nrows > 0 /\ c.ncols > 0 THEN c.nrows * c.ncols ELSE 0) |->
                   <<c.colname, ((p - 1) \div c.ncols) + 1, ((p - 1) % c.ncols) + 1>>]
          ELSE [k \in 1..c.repeat |-> <<c.colname, k>>])
    ELSE << <<c.colname>> >>

\* dl_getOutputCols: the loop over the input columns.
RECURSIVE SumOutCols(_, _, _)
SumOutCols(expl, cols, n) ==
    IF n = 0 THEN 0 ELSE SumOutCols(expl, cols, n - 1) + OutColsOf(expl, cols[n])

Flag(b) == IF b THEN 1 ELSE 0

\* dl_getOutputCols: numOutCols.
GetOutputCols(inCols, nin, expl, add, sid, rid) ==
    (IF expl THEN SumOutCols(expl, inCols, nin) ELSE nin)
      + Flag(add) + Flag(sid) + Flag(rid)

\* The length-prefixed fields (binary) or values (text) one encoder call
\* writes: the element loops run nrows x ncols times; a packed column is one
\* field; the unsupported types write nothing.
FieldsOf(expl, c) ==
               IF Unsupported(c.type) THEN 0
               ELSE IF c.type = "TSTRING" THEN 1
               ELSE IF expl
                    THEN (IF c.nrows > 0 /\ c.ncols > 0 THEN c.nrows * c.ncols ELSE 0)
                    ELSE 1

\* dl_printCol: the fields the loop over the table's columns writes.
RECURSIVE SumFields(_, _, _)
SumFields(expl, cols, n) ==
    IF n = 0 THEN 0 ELSE SumFields(expl, cols, n - 1) + FieldsOf(expl, cols[n])

\* dl_printCol at the last column: which synthetic values are written.
SerialFormat(fmt) == fmt \in {"TAB_POSTGRES", "TAB_DELIMITED", "TAB_IPAC"}

SynthFields(fmt, add, sid, rid) ==
    Flag(add) + Flag(sid /\ SerialFormat(fmt)) + Flag(rid /\ SerialFormat(fmt))

(***************************************************************************)
(* 32-bit values in memory and on the wire.                                *)
(***************************************************************************)
Rev4(b) == <<b[4], b[3], b[2], b[1]>>

\* The four bytes of v, most significant first.
BE4(v) == <<(v \div 16777216) % 256, (v \div 65536) % 256,
            (v \div 256) % 256, v % 256>>

FromBE4(b) == ((b[1] * 256 + b[2]) * 256 + b[3]) * 256 + b[4]

\* The image of an unsigned int in the memory of the host.
Mem4(v, swapped) == IF swapped THEN Rev4(BE4(v)) ELSE BE4(v)

Val4(m, swapped) == IF swapped THEN FromBE4(Rev4(m)) ELSE FromBE4(m)

\* bswap4 of one 4-byte group, in place.
bswap4(m) == Rev4(m)

\* htonl on the host.
htonl(v, swapped) == IF swapped THEN FromBE4(Rev4(BE4(v))) ELSE v

\* dl_printSerial: the value a reader of the output sees for serial ival.
\* Binary: the payload bytes copied from &ival, read big-endian.  Text: the
\* decimal token.
PrintSerial(ival, binary, swapped) ==
    IF binary
    THEN LET m0 == Mem4(ival, swapped)
             m1 == IF swapped THEN bswap4(m0) ELSE m0
             v2 == htonl(Val4(m1, swapped), swapped)
         IN  FromBE4(Mem4(v2, swapped))
    ELSE ival

(***************************************************************************)
(* Bytes, host memory and decimal text.  A value of n bytes is the         *)
(* sequence of its bytes, most significant first; the output of an encoder *)
(* is the sequence of the bytes it writes (text as character codes).       *)
(***************************************************************************)
Rev(s) == [i \in 1..Len(s) |-> s[Len(s) + 1 - i]]

\* bswap2 / bswap4 / bswap8 over nbytes = Len(d) bytes: every complete group
\* of w bytes is reversed, the odd bytes left over are moved as they are.
SwapGroups(d, w) ==
    [i \in 1..Len(d) |->
        IF ((i - 1) \div w) * w + w <= Len(d)
        THEN d[((i - 1) \div w) * w + (w - ((i - 1) % w))]
        ELSE d[i]]

\* memcpy (&val, dp, n) and the value the host then finds in val: its digits
\* are the bytes of memory on a big-endian host, their reverse on a
\* little-endian one.
HostDigits(mem, swapped) == IF swapped THEN Rev(mem) ELSE mem

IsZero(b) == \A i \in 1..Len(b) : b[i] = 0

Compl(b) == [i \in 1..Len(b) |-> 255 - b[i]]

RECURSIVE AddOne(_)
AddOne(b) ==
    IF b = <<>> THEN <<>>
    ELSE IF b[Len(b)] < 255 THEN [b EXCEPT ![Len(b)] = @ + 1]
    ELSE AddOne(SubSeq(b, 1, Len(b) - 1)) \o <<0>>

\* Two's complement negation.
Neg(b) == AddOne(Compl(b))

Zeros(n) == [i \in 1..n |-> 0]

\* A number as sign and 8-byte magnitude; zero is not negative.
Num(neg, mag) ==
    [neg |-> neg /\ ~IsZero(mag), mag |-> Zeros(8 - Len(mag)) \o mag]

\* The number a C integer object with digits v holds.
NumOf(v, signed) ==
    IF signed /\ v[1] >= 128 THEN Num(TRUE, Neg(v)) ELSE Num(FALSE, v)

\* Long division of the digits b[k..] by ten, rem carried in.
RECURSIVE LongDiv(_, _, _)
LongDiv(b, k, rem) ==
    IF k > Len(b) THEN [q |-> <<>>, r |-> rem]
    ELSE LET cur  == rem * 256 + b[k]
             rest == LongDiv(b, k + 1, cur % 10)
         IN  [q |-> <<cur \div 10>> \o rest.q, r |-> rest.r]

RECURSIVE Dec(_)
Dec(m) ==
    IF IsZero(m) THEN <<>>
    ELSE LET d == LongDiv(m, 1, 0) IN Dec(d.q) \o <<48 + d.r>>

\* sprintf ("%d" / "%ld"): the characters of a number.
Decimal(x) ==
    (IF x.neg THEN <<45>> ELSE <<>>) \o (IF IsZero(x.mag) THEN <<48>> ELSE Dec(x.mag))

\* sprintf ("%*d"): right-justified in a field of w characters.
Padded(tok, w) ==
    IF Len(tok) >= w THEN tok ELSE [i \in 1..(w - Len(tok)) |-> 32] \o tok

(***************************************************************************)
(* The column encoders.  d is the data from dp to the end of the zeroed    *)
(* row buffer, c the Col descriptor; the globals an encoder reads are      *)
(* passed in: fmt (format), binary (do_binary), expl (explode), swapped    *)
(* (mach_swap), delim (delimiter).  The result is the bytes appended to    *)
(* the output buffer and the number of bytes dp advances over.             *)
(***************************************************************************)
sz_short  == 2
sz_int    == 4
sz_long   == 8
sz_float  == 4
sz_double == 8

\* Passes of the loops for (i = 1 .. nrows) for (j = 1 .. ncols).
LoopCount(c) == IF c.nrows > 0 /\ c.ncols > 0 THEN c.nrows * c.ncols ELSE 0

At(d, i) == IF i <= Len(d) THEN d[i] ELSE 0

\* The k-th group of sz bytes at dp.
Elem(d, k, sz) == [i \in 1..sz |-> At(d, (k - 1) * sz + i)]

\* bswapN (dp, dp, sz * repeat): in place over the bytes of the column.
SwapCol(d, sz, repeat) ==
    SwapGroups(SubSeq(d, 1, sz * repeat), sz) \o SubSeq(d, sz * repeat + 1, Len(d))

RECURSIVE Flatten(_, _, _, _)
Flatten(toks, k, sep, useSep) ==
    IF k > Len(toks) THEN <<>>
    ELSE toks[k]
         \o (IF useSep /\ k < Len(toks) THEN <<sep>> ELSE <<>>)
         \o Flatten(toks, k + 1, sep, useSep)

\* The text branch of an encoder: one token per pass of the loops, the
\* delimiter after every token of an array column but the last.
TextOut(toks, c, delim) == Flatten(toks, 1, delim, c.repeat > 1)

\* sprintf with "%*d" (IPAC) or "%d".
IntToken(x, c, fmt) ==
    IF fmt = "TAB_IPAC" THEN Padded(Decimal(x), c.dispwidth) ELSE Decimal(x)

\* The binary branch of the encoders of sz-byte types: exploded, a length
\* word and sz bytes per pass of the loops; packed, one length word and the
\* bytes of the column.
BinaryOut(d, c, sz, expl) ==
    IF expl
    THEN Flatten([k \in 1..LoopCount(c) |-> BE4(sz) \o Elem(d, k, sz)], 1, 0, FALSE)
    ELSE BE4(c.repeat * sz) \o [i \in 1..(c.repeat * sz) |-> At(d, i)]

BinaryUsed(c, sz, expl) == IF expl THEN LoopCount(c) * sz ELSE c.repeat * sz

dl_printByte(d, c, fmt, binary, expl, delim, schar) ==
    IF binary
    THEN [out  |-> IF expl
                   THEN Flatten([k \in 1..LoopCount(c) |->
                                    BE4(sz_short) \o <<0, At(d, k)>>], 1, 0, FALSE)
                   ELSE BE4(c.repeat * sz_short)
                        \o Flatten([k \in 1..LoopCount(c) |-> <<0, At(d, k)>>],
                                   1, 0, FALSE),
          used |-> LoopCount(c)]
    ELSE [out  |-> TextOut([k \in 1..LoopCount(c) |->
                              IntToken(NumOf(<<At(d, k)>>,
                                             c.type # "TBYTE" /\ schar), c, fmt)],
                           c, delim),
          used |-> LoopCount(c)]

dl_printShort(d, c, fmt, binary, expl, swapped, delim) ==
    LET d1 == IF swapped /\ ~binary THEN SwapCol(d, sz_short, c.repeat) ELSE d
    IN  IF binary
        THEN [out  |-> BinaryOut(d1, c, sz_short, expl),
              used |-> BinaryUsed(c, sz_short, expl)]
        ELSE [out  |-> TextOut([k \in 1..LoopCount(c) |->
                                  IntToken(NumOf(HostDigits(Elem(d1, k, sz_short),
                                                            swapped),
                                                 c.type # "TUSHORT"), c, fmt)],
                               c, delim),
              used |-> LoopCount(c) * sz_short]

\* "%d" takes its argument as an int: the unsigned value of a TUINT column is
\* printed as the int of the same bits.
dl_printInt(d, c, fmt, binary, expl, swapped, delim) ==
    LET d1 == IF swapped /\ binary THEN SwapCol(d, sz_int, c.repeat) ELSE d
    IN  IF binary
        THEN [out  |-> BinaryOut(d1, c, sz_int, expl),
              used |-> BinaryUsed(c, sz_int, expl)]
        ELSE [out  |-> TextOut([k \in 1..LoopCount(c) |->
                                  IntToken(NumOf(HostDigits(Elem(d1, k, sz_int),
                                                            swapped), TRUE),
                                           c, fmt)],
                               c, delim),
              used |-> LoopCount(c) * sz_int]

dl_printLong(d, c, fmt, binary, expl, swapped, delim) ==
    LET d1 == IF swapped /\ binary THEN SwapCol(d, sz_long, c.repeat) ELSE d
    IN  IF binary
        THEN [out  |-> BinaryOut(d1, c, sz_long, expl),
              used |-> BinaryUsed(c, sz_long, expl)]
        ELSE [out  |-> TextOut([k \in 1..LoopCount(c) |->
                                  IntToken(NumOf(HostDigits(Elem(d1, k, sz_long),
                                                            swapped), TRUE),
                                           c, fmt)],
                               c, delim),
              used |-> LoopCount(c) * sz_long]

dl_printLogical(d, c, fmt, binary, expl, delim) ==
    LET true(k) == At(d, k) \in {84, 116}          \* tolower (ch) == 't'
        lval(k) == IF true(k) THEN <<0, 1>> ELSE <<0, 0>>
        tok(k)  == IF fmt = "TAB_IPAC"
                   THEN <<IF true(k) THEN 49 ELSE 48>>
                   ELSE Padded(<<IF true(k) THEN 49 ELSE 48>>, c.dispwidth)
    IN  IF binary
        THEN [out  |-> IF expl
                       THEN Flatten([k \in 1..LoopCount(c) |->
                                        BE4(sz_short) \o lval(k)], 1, 0, FALSE)
                       ELSE BE4(c.repeat * sz_short)
                            \o Flatten([k \in 1..LoopCount(c) |-> lval(k)],
                                       1, 0, FALSE),
              used |-> LoopCount(c)]
        ELSE [out  |-> TextOut([k \in 1..LoopCount(c) |-> tok(k)], c, delim),
              used |-> LoopCount(c)]

\* An IEEE 754 number with digits v (4 or 8 bytes): sign, biased exponent
\* and whether the fraction is zero.
FloatParts(v) ==
    IF Len(v) = 4
    THEN [neg |-> v[1] >= 128,
          exp |-> (v[1] % 128) * 2 + v[2] \div 128, expmax |-> 255, bias |-> 127,
          fraczero |-> v[2] % 128 = 0 /\ IsZero(SubSeq(v, 3, 4))]
    ELSE [neg |-> v[1] >= 128,
          exp |-> (v[1] % 128) * 16 + v[2] \div 16, expmax |-> 2047, bias |-> 1023,
          fraczero |-> v[2] % 16 = 0 /\ IsZero(SubSeq(v, 3, 8))]

isnan(v) == FloatParts(v).exp = FloatParts(v).expmax /\ ~FloatParts(v).fraczero

\* isinf: nonzero for an infinity.  The C library gives +1 and -1 (a build
\* may give 1 for both); zero it is not.
isinf(v) ==
    IF FloatParts(v).exp = FloatParts(v).expmax /\ FloatParts(v).fraczero
    THEN (IF FloatParts(v).neg THEN -1 ELSE 1)
    ELSE 0

Str_NaN       == <<78, 97, 78>>
Str_Infinity  == <<73, 110, 102, 105, 110, 105, 116, 121>>
Str_nan       == <<110, 97, 110>>
Str_inf       == <<105, 110, 102>>
Quoted(str)   == <<39>> \o str \o <<39>>
Minus(str)    == <<45>> \o str

\* sprintf ("%f" / "%.16f") of the numbers the model's tables hold: zero and
\* the subnormals print as 0.000..., a power of two 2^0..2^3 as its digit;
\* "nan" and "inf" for the not-finite ones.
FixedToken(v, ndec) ==
    LET p    == FloatParts(v)
        sign == IF p.neg THEN <<45>> ELSE <<>>
        frac == [i \in 1..ndec |-> 48]
        unit == IF p.exp = 0 THEN 0
                ELSE IF p.fraczero /\ p.exp = p.bias THEN 1
                ELSE IF p.fraczero /\ p.exp = p.bias + 1 THEN 2
                ELSE IF p.fraczero /\ p.exp = p.bias + 2 THEN 4
                ELSE IF p.fraczero /\ p.exp = p.bias + 3 THEN 8
                ELSE -1
    IN  IF isnan(v) THEN sign \o Str_nan
        ELSE IF isinf(v) # 0 THEN sign \o Str_inf
        ELSE IF unit < 0 THEN <<63>>
        ELSE sign \o <<48 + unit, 46>> \o frac

\* The text token of dl_printFloat / dl_printDouble for the value with
\* digits v; ndec is the precision of the format of the finite branch.
RealToken(v, c, fmt, ndec) ==
    LET sign == isinf(v)
    IN  IF isnan(v) THEN
            IF fmt \in {"TAB_SQLITE", "TAB_MYSQL"} THEN Quoted(Str_NaN)
            ELSE IF fmt = "TAB_POSTGRES" THEN Str_NaN
            ELSE FixedToken(v, ndec)
        ELSE IF sign # 0 THEN
            IF fmt \in {"TAB_SQLITE", "TAB_MYSQL"}
            THEN (IF sign # 0 THEN Quoted(Str_Infinity)
                  ELSE Quoted(Minus(Str_Infinity)))
            ELSE IF fmt = "TAB_POSTGRES"
            THEN (IF sign # 0 THEN Str_Infinity ELSE Minus(Str_Infinity))
            ELSE FixedToken(v, ndec)
        ELSE IF fmt = "TAB_IPAC" THEN Padded(FixedToken(v, 6), c.dispwidth)
        ELSE FixedToken(v, ndec)

dl_printFloat(d, c, fmt, binary, expl, swapped, delim) ==
    LET d1 == IF swapped /\ binary THEN SwapCol(d, sz_float, c.repeat) ELSE d
    IN  IF binary
        THEN [out  |-> BinaryOut(d1, c, sz_float, expl),
              used |-> BinaryUsed(c, sz_float, expl)]
        ELSE [out  |-> TextOut([k \in 1..LoopCount(c) |->
                                  RealToken(HostDigits(Elem(d1, k, sz_float),
                                                       swapped), c, fmt, 6)],
                               c, delim),
              used |-> LoopCount(c) * sz_float]

dl_printDouble(d, c, fmt, binary, expl, swapped, delim) ==
    LET d1 == IF swapped /\ ~binary THEN SwapCol(d, sz_double, c.repeat) ELSE d
    IN  IF binary
        THEN [out  |-> BinaryOut(d1, c, sz_double, expl),
              used |-> BinaryUsed(c, sz_double, expl)]
        ELSE [out  |-> TextOut([k \in 1..LoopCount(c) |->
                                  RealToken(HostDigits(Elem(d1, k, sz_double),
                                                       swapped), c, fmt, 16)],
                               c, delim),
              used |-> LoopCount(c) * sz_double]

\* The C string in a buffer: the bytes before the first NUL.
RECURSIVE CStr(_)
CStr(b) == IF b = <<>> \/ b[1] = 0 THEN <<>> ELSE <<b[1]>> \o CStr(Tail(b))

\* sstrip: the trailing blanks are cut (never the first character), then the
\* leading blanks are skipped.
RECURSIVE TrimRight(_)
TrimRight(str) ==
    IF Len(str) > 1 /\ str[Len(str)] = 32
    THEN TrimRight(SubSeq(str, 1, Len(str) - 1))
    ELSE str

RECURSIVE TrimLeft(_)
TrimLeft(str) ==
    IF str # <<>> /\ str[1] = 32 THEN TrimLeft(Tail(str)) ELSE str

sstrip(str) == TrimLeft(TrimRight(str))

\* dl_escapeCSV: quoted, every quote character of the value doubled.
RECURSIVE Doubled(_, _)
Doubled(str, q) ==
    IF str = <<>> THEN <<>>
    ELSE (IF str[1] = q THEN <<q, q>> ELSE <<str[1]>>) \o Doubled(Tail(str), q)

dl_escapeCSV(str, q) == <<q>> \o Doubled(str, q) \o <<q>>

dl_quote(str, q) == <<q>> \o str \o <<q>>

\* do_escape is initialised to 0 and no option sets it.
do_escape == FALSE

dl_printString(d, c, binary, strip, quote, q) ==
    LET buf == CStr([i \in 1..c.repeat |-> At(d, i)])
    IN  [out  |-> IF binary THEN BE4(Len(buf)) \o buf
                  ELSE IF do_escape
                       THEN dl_escapeCSV(IF strip THEN sstrip(buf) ELSE buf, q)
                  ELSE IF quote
                       THEN dl_quote(IF strip THEN sstrip(buf) ELSE buf, q)
                  ELSE sstrip(buf),
         used |-> c.repeat]

\* dl_printValue: ival = htonl (value) copied out of memory is the value's
\* digits on either host.
dl_printValue(value, binary) ==
    IF binary THEN BE4(sz_int) \o BE4(value)
    ELSE Decimal(NumOf(BE4(value), TRUE))

\* dl_printSerial: the bytes written for serial ival.
dl_printSerial(ival, binary, swapped) ==
    IF binary THEN BE4(sz_int) \o BE4(PrintSerial(ival, TRUE, swapped))
    ELSE Decimal(NumOf(BE4(ival), TRUE))

\* dl_printRandom: rv is the digits of the float rand() gave; bswap4 on a
\* little-endian host leaves them in memory most significant first.
dl_printRandom(rv, binary) ==
    IF binary THEN BE4(sz_float) \o rv ELSE FixedToken(rv, 6)

\* dl_printCol: the switch on the column type.
EncodeCol(d, c, g) ==
    CASE c.type = "TSTRING" ->
            dl_printString(d, c, g.do_binary, g.do_strip, g.do_quote, g.quote_char)
      [] c.type = "TLOGICAL" ->
            dl_printLogical(d, c, g.format, g.do_binary, g.explode, g.delimiter)
      [] c.type \in {"TBYTE", "TSBYTE"} ->
            dl_printByte(d, c, g.format, g.do_binary, g.explode, g.delimiter,
                         g.char_signed)
      [] c.type \in {"TSHORT", "TUSHORT"} ->
            dl_printShort(d, c, g.format, g.do_binary, g.explode, g.mach_swap,
                          g.delimiter)
      [] c.type \in {"TINT", "TUINT", "TINT32BIT"} ->
            dl_printInt(d, c, g.format, g.do_binary, g.explode, g.mach_swap,
                        g.delimiter)
      [] c.type = "TLONGLONG" ->
            dl_printLong(d, c, g.format, g.do_binary, g.explode, g.mach_swap,
                         g.delimiter)
      [] c.type = "TFLOAT" ->
            dl_printFloat(d, c, g.format, g.do_binary, g.explode, g.mach_swap,
                          g.delimiter)
      [] c.type = "TDOUBLE" ->
            dl_printDouble(d, c, g.format, g.do_binary, g.explode, g.mach_swap,
                           g.delimiter)
      [] OTHER -> [out |-> <<>>, used |-> 0]

\* The element size the encoder of a type works with.
ElemSize(type) ==
    CASE type \in {"TLOGICAL", "TBYTE", "TSBYTE", "TSHORT", "TUSHORT"} -> sz_short
      [] type \in {"TINT", "TUINT", "TINT32BIT"} -> sz_int
      [] type = "TLONGLONG" -> sz_long
      [] type = "TFLOAT"    -> sz_float
      [] OTHER              -> sz_double

\* What the encoder the switch of dl_printCol calls adds to olen.  In text
\* mode every token and every delimiter is counted as it is appended.  In
\* binary mode: a string counts its length word and its bytes; an exploded
\* column a length word and an element per pass of the loops; a packed
\* column its length word and its repeat elements (dl_printByte: an element
\* per pass); the packed branch of dl_printLogical adds sz_short + len per
\* pass with len = repeat * sz_short, and then sz_int + sz_val with
\* sz_val = htonl (repeat * sz_short) as the host holds it.
OlenOf(d, c, g) ==
    LET sz == ElemSize(c.type)
    IN  IF Unsupported(c.type) THEN 0
        ELSE IF ~g.do_binary THEN Len(EncodeCol(d, c, g).out)
        ELSE IF c.type = "TSTRING"
             THEN sz_int + Len(CStr([i \in 1..c.repeat |-> At(d, i)]))
        ELSE IF g.explode THEN LoopCount(c) * (sz_int + sz)
        ELSE IF c.type = "TLOGICAL"
             THEN LoopCount(c) * (sz_short + c.repeat * sz_short)
                  + sz_int + htonl(c.repeat * sz_short, g.mach_swap)
        ELSE IF c.type \in {"TBYTE", "TSBYTE"}
             THEN sz_int + LoopCount(c) * sz_short
        ELSE sz_int + c.repeat * sz

\* dl_printCol: what is written before the value, the value, what is written
\* after it (array brackets, row brackets, synthetic columns at the end of
\* the row, the end character), and the advance of dp.
dl_printCol(d, c, end_char, g, rv) ==
    LET packed == ~g.explode /\ ~g.do_binary /\ c.type # "TSTRING" /\ c.repeat > 1
        mysql  == g.format \in {"TAB_MYSQL", "TAB_SQLITE"}
        sep    == IF g.do_binary THEN <<>> ELSE <<g.delimiter>>
        val    == EncodeCol(d, c, g)
        synth  == (IF g.addname THEN sep \o dl_printValue(1, g.do_binary) ELSE <<>>)
                  \o (IF ~g.sidname THEN <<>>
                      ELSE IF g.format = "TAB_POSTGRES"
                      THEN sep \o dl_printSerial(g.serial_number, g.do_binary,
                                                 g.mach_swap)
                      ELSE IF g.format \in {"TAB_DELIMITED", "TAB_IPAC"}
                      THEN <<g.delimiter>>
                           \o dl_printSerial(g.serial_number, g.do_binary,
                                             g.mach_swap)
                      ELSE <<>>)
                  \o (IF ~g.ridname THEN <<>>
                      ELSE IF g.format = "TAB_POSTGRES"
                      THEN sep \o dl_printRandom(rv, g.do_binary)
                      ELSE IF g.format \in {"TAB_DELIMITED", "TAB_IPAC"}
                      THEN <<g.delimiter>> \o dl_printRandom(rv, g.do_binary)
                      ELSE <<>>)
    IN  [pre  |-> (IF packed
                   THEN (IF g.format = "TAB_DELIMITED"
                         THEN <<g.quote_char, 40>> ELSE <<123>>)
                   ELSE <<>>)
                  \o (IF g.format = "TAB_IPAC" /\ c.colnum = 1 THEN <<124>> ELSE <<>>)
                  \o (IF mysql /\ c.colnum = 1 THEN <<40>> ELSE <<>>),
         val  |-> val.out,
         post |-> (IF packed
                   THEN (IF g.format = "TAB_DELIMITED"
                         THEN <<g.quote_char, 41>> ELSE <<125>>)
                   ELSE <<>>)
                  \o (IF end_char = 10 /\ g.format = "TAB_IPAC" THEN <<124>> ELSE <<>>)
                  \o (IF end_char = 10 /\ mysql THEN <<41>> ELSE <<>>)
                  \o (IF end_char = 10 THEN synth ELSE <<>>)
                  \o (IF ~g.do_binary /\ end_char # 10 THEN <<end_char>> ELSE <<>>),
         used |-> val.used,
         len  |-> OlenOf(d, c, g)]

(***************************************************************************)
(* Input files.  kind is what main() and the FITS reader find: a path that *)
(* cannot be accessed, a file that is neither FITS nor gzip, a file        *)
(* fits_open_file rejects, an image HDU, or a binary table with its        *)
(* columns, its row count, the row count fits_get_rowsize advises and the  *)
(* number of the chunk read that fails (0: none).                          *)
(***************************************************************************)
ColA == FCol("a", "TINT", 1, 4, NoDim)
ColS == FCol("s", "TSTRING", 3, 1, NoDim)
ColV == FCol("a", "TINT", 2, 4, [kind |-> "two", d1 |-> 1, d2 |-> 2])

TabA  == <<ColA>>
TabAS == <<ColA, ColS>>
TabV  == <<ColV>>

NotTable(kind) ==
    [kind |-> kind, cols |-> <<>>, nrows |-> 0, rowsize |-> 1, errAt |-> 0]

Table(cols, nrows, rowsize, errAt) ==
    [kind |-> "table", cols |-> cols, nrows |-> nrows, rowsize |-> rowsize,
     errAt |-> errAt]

\* NAXIS1: the bytes of one table row.
RECURSIVE RowBytes(_, _)
RowBytes(cols, n) ==
    IF n = 0 THEN 0 ELSE RowBytes(cols, n - 1) + cols[n].width * cols[n].repeat

(***************************************************************************)
(* Output tokens.                                                          *)
(*   hdr    the column-name header of dl_printHdr / dl_printIPACTypes      *)
(*   open   the bundle opener of dl_printSQLHdr: COPY ... / INSERT ...;    *)
(*          bin: the COPY ... WITH BINARY line, signature and extension    *)
(*   row    one table row; count: the 16-bit field count written before it *)
(*          (-1: none), nfields: values written, sid: serial value (-1:    *)
(*          none), bin: the encoders ran in binary mode                    *)
(*   comma  the tuple separator of MySQL / SQLite                          *)
(*   close  the bundle closer; bin: the 16-bit -1 trailer                  *)
(***************************************************************************)
Tok(t, file, row, bin, count, nfields, sid) ==
    [t |-> t, file |-> file, row |-> row, bin |-> bin, count |-> count,
     nfields |-> nfields, sid |-> sid]

Mark(t, file, bin) == Tok(t, file, 0, bin, -1, 0, -1)

VARIABLES
    format, do_binary, do_quote, concat, bundle, nfiles, explode,
    addname, sidname, ridname, do_load, noop, chunk_size, mach_swap,
    header, files,
    pc, filenum, bnum, inColumns, numInCols, numOutCols, serial_number,
    jj, nelem, firstchar, totrows, reads,
    out, diag,
    do_strip, delimiter, quote_char, char_signed,
    col, end_char, data, dp, obuf, mark, olen,
    fptr, ofd, allocated

cfgvars == <<format, do_quote, concat, bundle, nfiles, explode, addname,
             sidname, ridname, do_load, noop, chunk_size, mach_swap, header,
             files, do_strip, delimiter, quote_char, char_signed,
             col, end_char, data>>

colvars == <<inColumns, numInCols, numOutCols>>

loopvars == <<jj, nelem, firstchar, totrows, reads>>

\* One call of dl_printCol: the read pointer (an offset into data), the
\* bytes appended to the output buffer, where in them the value written by
\* the switch on the column type starts and how long it is, and the running
\* output length.
bufvars == <<dp, obuf, mark, olen>>

\* The locals of the latest call of dl_fits2db: the input handle and the
\* output stream ("null" before they are opened), and whether the chunk
\* buffers data and obuf are allocated.
resvars == <<fptr, ofd, allocated>>

vars == <<cfgvars, do_binary, pc, filenum, bnum, colvars, serial_number,
          loopvars, out, diag, bufvars, resvars>>

\* main(): the output file of input number i.  One input, or --concat: the
\* one named output; otherwise a name derived from the input or its number.
OutOf(i) == IF nfiles = 1 \/ concat THEN 0 ELSE i

\* main(): bnum = ((bnum+1) == bundle ? 0 : (bnum+1)).
NextBnum(b) == IF b + 1 = bundle THEN 0 ELSE b + 1

\* main(): the delimiter the format flag selects (DEF_DELIMITER otherwise).
DelimOf(flag) ==
    CASE flag = "asv"      -> 32
      [] flag = "bsv"      -> 124
      [] flag = "tsv"      -> 9
      [] flag = "ipac"     -> 124
      [] flag = "postgres" -> 9
      [] OTHER             -> 44

\* DEF_QUOTE
DEF_QUOTE == 34

\* The state main() reaches once the options are parsed: flag is the format
\* option, binary is --binary, b is --bundle, header is cleared by --noheader.
InitWith(flags, binaries, concats, bundles, hosts, explodes, synths, loads, noops, headers, chunks, fileset) ==
    /\ \E flag \in flags :
          /\ format = FormatOf(flag)
          /\ do_quote = (flag # "postgres")
          /\ delimiter = DelimOf(flag)
    /\ do_binary \in binaries
    /\ concat \in concats
    /\ \E b \in bundles : bundle = IF do_binary THEN 1 ELSE b
    /\ mach_swap \in hosts
    /\ explode \in explodes
    /\ \E s \in synths : addname = s[1] /\ sidname = s[2] /\ ridname = s[3]
    /\ do_load \in loads
    /\ noop \in noops
    /\ header \in headers
    /\ chunk_size \in chunks
    /\ nfiles \in 1..MaxFiles
    /\ files \in [1..nfiles -> fileset]
    /\ pc = "main"
    /\ filenum = 0
    /\ bnum = 0
    /\ inColumns = [i \in 1..NumCols |-> ZeroCol]
    /\ numInCols = 0
    /\ numOutCols = 0
    /\ serial_number = 0
    /\ jj = 0 /\ nelem = 0 /\ firstchar = 0 /\ totrows = 0 /\ reads = <<>>
    /\ out = [o \in 0..(MaxFiles - 1) |-> <<>>]
    /\ diag = <<>>
    /\ do_strip = TRUE
    /\ quote_char = DEF_QUOTE
    /\ char_signed = TRUE
    /\ col = ZeroCol /\ end_char = 10 /\ data = <<>>
    /\ dp = 0 /\ obuf = <<>> /\ mark = <<0, 0>> /\ olen = 0
    /\ fptr = "null" /\ ofd = "null" /\ allocated = FALSE

\* dl_fits2db: chunk = (chunk > nrows ? nrows : chunk); nelem = chunk; and
\* then, after fits_get_rowsize, nelem = rowsize.
InitialNelem(chunk, nrows, rowsize) ==
    LET clipped == IF chunk > nrows THEN nrows ELSE chunk
        nelem0  == clipped
        nelem1  == rowsize
    IN  nelem1

(***************************************************************************)
(* main(), one pass of the loop over the input files, up to the point      *)
(* where dl_fits2db enters its chunk loop (or returns early).              *)
(***************************************************************************)
Note(t) == Append(diag, [t |-> t, file |-> filenum])

\* A prologue that never finds an array column.
HasArrayCol_None(inCols, lastcol) == FALSE

\* dl_fits2db: binary mode is switched off for a table with an array column
\* (SQL formats only: the test sits in the SQL branch of the prologue).
HasArrayCol(inCols, lastcol) ==
    \E c \in 1..lastcol : inCols[c].type # "TSTRING" /\ inCols[c].repeat > 1

\* The handles and buffers of the call of dl_fits2db that is under way or
\* has returned.
Handles(in, outfd, bufs) ==
    /\ fptr' = in
    /\ ofd' = outfd
    /\ allocated' = bufs

\* The file is left without entering dl_fits2db's chunk loop; advance tells
\* whether main() reaches the bnum update.
LeaveFile(why, advance) ==
    /\ diag' = Note(why)
    /\ bnum' = IF advance THEN NextBnum(bnum) ELSE bnum
    /\ filenum' = filenum + 1
    /\ pc' = "main"

MainLoop ==
    /\ pc = "main"
    /\ filenum < nfiles
    /\ LET f       == files[filenum + 1]
           lastcol == Len(f.cols)
           first   == filenum = 0 \/ ~concat
           newCols == IF first
                      THEN GetColInfo(f.cols, inColumns, explode, do_quote)
                      ELSE ValidateCopy(f.cols, inColumns, explode, do_quote)
           disable == first /\ TAB_DBTYPE(format) /\ do_binary
                         /\ HasArrayCol(newCols, lastcol)
           newBin  == IF disable THEN FALSE ELSE do_binary
           \* "Warning: binary mode not supported for array columns"
           warned  == IF disable THEN Note("nobinary") ELSE diag
           prologue == IF first /\ format \in {"TAB_DELIMITED", "TAB_IPAC"}
                       THEN <<Mark("hdr", filenum, FALSE)>>
                       ELSE <<>>
           opener  == IF bnum = 0 /\ TAB_DBTYPE(format)
                      THEN <<Mark("open", filenum,
                                  newBin /\ format = "TAB_POSTGRES")>>
                      ELSE <<>>
       IN
       IF f.kind = "noaccess" THEN
           \* access (ifname, F_OK) < 0: continue
           /\ LeaveFile("noaccess", FALSE)
           /\ UNCHANGED resvars
           /\ UNCHANGED <<cfgvars, do_binary, colvars, serial_number, loopvars, out>>
       ELSE IF f.kind = "nonfits" THEN
           /\ LeaveFile("nonfits", FALSE)
           /\ UNCHANGED resvars
           /\ UNCHANGED <<cfgvars, do_binary, colvars, serial_number, loopvars, out>>
       ELSE IF noop THEN
           /\ LeaveFile("noop", TRUE)
           /\ UNCHANGED resvars
           /\ UNCHANGED <<cfgvars, do_binary, colvars, serial_number, loopvars, out>>
       ELSE IF f.kind = "openfail" THEN
           /\ LeaveFile("openfail", TRUE)
           \* fits_open_file fails: fits_close_file on the null handle
           /\ Handles("null", "null", FALSE)
           /\ UNCHANGED <<cfgvars, do_binary, colvars, serial_number, loopvars, out>>
       ELSE IF f.kind = "image" THEN
           /\ LeaveFile("image", TRUE)
           /\ Handles("closed", "null", FALSE)
           /\ UNCHANGED <<cfgvars, do_binary, colvars, serial_number, loopvars, out>>
       ELSE IF ~first /\ ValidateMismatch(f.cols, inColumns, explode, do_quote) THEN
           \* "Skipping unmatching table": return
           /\ LeaveFile("mismatch", TRUE)
           \* return with the input and the output still open
           /\ Handles("open", "open", FALSE)
           /\ UNCHANGED <<cfgvars, do_binary, colvars, serial_number, loopvars, out>>
       ELSE
           /\ inColumns' = newCols
           /\ numInCols' = IF first THEN lastcol ELSE numInCols
           /\ numOutCols' = IF first
                            THEN GetOutputCols(newCols, lastcol, explode,
                                               addname, sidname, ridname)
                            ELSE numOutCols
           /\ do_binary' = newBin
           /\ IF ~do_load THEN
                 /\ diag' = Append(warned, [t |-> "noload", file |-> filenum])
                 /\ bnum' = NextBnum(bnum)
                 /\ filenum' = filenum + 1
                 /\ pc' = "main"
                 /\ out' = [out EXCEPT ![OutOf(filenum)] = @ \o prologue]
                 \* fits_close_file and return: the output stays open
                 /\ Handles("closed", "open", FALSE)
                 /\ UNCHANGED loopvars
              ELSE
                 /\ out' = [out EXCEPT ![OutOf(filenum)] = @ \o prologue \o opener]
                 /\ nelem' = InitialNelem(chunk_size, f.nrows, f.rowsize)
                 /\ jj' = 1
                 /\ firstchar' = 1
                 /\ totrows' = 0
                 /\ reads' = <<>>
                 /\ pc' = IF 1 <= f.nrows THEN "chunk" ELSE "term"
                 /\ diag' = warned
                 /\ Handles("open", "open", TRUE)
                 /\ UNCHANGED <<filenum, bnum>>
           /\ UNCHANGED <<cfgvars, serial_number>>
    /\ UNCHANGED bufvars

(***************************************************************************)
(* dl_fits2db: one pass of the chunk loop.                                 *)
(***************************************************************************)
\* A chunk loop without the clip of the last chunk to the rows that remain.
ChunkRows_NoClip(j0, n, nrows) == n

\* The extent of the chunk: nelem = (jj + nelem >= nrows ? nrows-jj+1 : nelem).
ChunkRows(j0, n, nrows) == IF j0 + n >= nrows THEN nrows - j0 + 1 ELSE n

\* The row driver: the 16-bit count written before a row.
FieldCount(ncols) ==
    IF format = "TAB_POSTGRES" /\ do_binary
    THEN (IF explode THEN numOutCols ELSE ncols)
    ELSE -1

EmitsSerial == sidname /\ SerialFormat(format)

\* The comma after tuple j of a chunk of n tuples (MySQL / SQLite).
CommaAfter(j, n) ==
    /\ format \in {"TAB_MYSQL", "TAB_SQLITE"}
    /\ \/ j < n
       \/ filenum < nfiles - 1 /\ bnum < bundle - 1

\* The tokens of rows j..n of the chunk; serial is serial_number before row j.
RECURSIVE ChunkToks(_, _, _, _)
ChunkToks(j, n, ncols, serial) ==
    IF j > n THEN <<>>
    ELSE LET row == Tok("row", filenum, totrows + j, do_binary,
                        FieldCount(ncols),
                        SumFields(explode, inColumns, ncols)
                          + SynthFields(format, addname, sidname, ridname),
                        IF EmitsSerial
                        THEN PrintSerial(serial, do_binary, mach_swap)
                        ELSE -1)
         IN  <<row>>
             \o (IF CommaAfter(j, n) THEN <<Mark("comma", filenum, FALSE)>> ELSE <<>>)
             \o ChunkToks(j + 1, n, ncols, IF EmitsSerial THEN serial + 1 ELSE serial)

ChunkLoop ==
    /\ pc = "chunk"
    /\ LET f      == files[filenum + 1]
           ncols  == Len(f.cols)
           naxis1 == RowBytes(f.cols, ncols)
           n      == ChunkRows(jj, nelem, f.nrows)
           nbytes == n * naxis1
           rd     == [firstchar |-> firstchar, nbytes |-> nbytes, nelem |-> n,
                      optimal |-> f.rowsize, remaining |-> f.nrows - totrows]
       IN
       /\ nelem' = n
       /\ reads' = Append(reads, rd)
       /\ IF f.errAt = Len(reads) + 1 THEN
             \* fits_read_tblbytes sets status: break
             /\ diag' = Note("readerr")
             /\ pc' = "term"
             /\ UNCHANGED <<jj, firstchar, totrows, out, serial_number>>
          ELSE
             /\ out' = [out EXCEPT ![OutOf(filenum)] =
                           @ \o ChunkToks(1, n, ncols, serial_number)]
             /\ serial_number' = IF EmitsSerial THEN serial_number + n
                                 ELSE serial_number
             /\ firstchar' = firstchar + nbytes
             /\ totrows' = totrows + n
             /\ jj' = jj + n
             /\ pc' = IF jj + n <= f.nrows THEN "chunk" ELSE "term"
             /\ UNCHANGED diag
    /\ UNCHANGED <<cfgvars, do_binary, filenum, bnum, colvars, bufvars, resvars>>

(***************************************************************************)
(* dl_fits2db after the chunk loop: terminate the output stream, free the  *)
(* buffers, close the files; then main()'s update of bnum.                 *)
(***************************************************************************)
\* (concat && filenum == nfiles-1) || (bnum > 0 && bnum == bundle-1)
AtBundleEnd ==
    \/ concat /\ filenum = nfiles - 1
    \/ bnum > 0 /\ bnum = bundle - 1

Closer ==
    IF AtBundleEnd /\ TAB_DBTYPE(format)
    THEN <<Mark("close", filenum, do_binary /\ format = "TAB_POSTGRES")>>
    ELSE <<>>

\* An epilogue that frees the buffers and leaves the files open.
Epilogue_NoClose == Handles("open", "open", FALSE)

\* free (data), free (obuf), fclose (ofd), fits_close_file (fptr).
Epilogue == Handles("closed", "closed", FALSE)

Terminate ==
    /\ pc = "term"
    /\ out' = [out EXCEPT ![OutOf(filenum)] = @ \o Closer]
    /\ Epilogue
    /\ bnum' = NextBnum(bnum)
    /\ filenum' = filenum + 1
    /\ pc' = "main"
    /\ UNCHANGED <<cfgvars, do_binary, colvars, serial_number, loopvars, diag,
                   bufvars>>

Next == MainLoop \/ ChunkLoop \/ Terminate

(***************************************************************************)
(* Specifications.  They share Next and differ in the command lines and    *)
(* input files Init draws.                                                 *)
(***************************************************************************)
BadFiles == {NotTable(k) : k \in {"noaccess", "nonfits", "openfail", "image"}}

Tables(layouts, rows, sizes, errs) ==
    {Table(c, n, r, e) : c \in layouts, n \in rows, r \in sizes, e \in errs}

NoSynth == <<FALSE, FALSE, FALSE>>

TabB == <<FCol("b", "TINT", 1, 4, NoDim)>>

\* Framing across files: every file kind, all SQL dialects, bundles, concat.
Init ==
    InitWith({"csv", "postgres", "mysql", "sqlite"}, BOOLEAN, BOOLEAN,
             1..MaxBundle, {TRUE}, {FALSE}, {NoSynth}, BOOLEAN, BOOLEAN,
             BOOLEAN, {MaxChunk},
             BadFiles \cup Tables({TabA}, {1}, {1}, {0, 1})
                      \cup Tables({TabB}, {1}, {1}, {0}))

Spec == Init /\ [][Next]_vars

\* Rows and chunks: tables of 0..MaxRows rows read in chunks, serial ids.
InitRows ==
    InitWith({"csv", "postgres", "mysql"}, BOOLEAN, BOOLEAN,
             1..MaxBundle, BOOLEAN, {FALSE}, {NoSynth, <<FALSE, TRUE, FALSE>>},
             {TRUE}, {FALSE}, {TRUE}, 1..MaxChunk,
             Tables({TabA}, 0..MaxRows, 1..MaxOpt, {0}))

SpecRows == InitRows /\ [][Next]_vars

\* Concatenation: tables of two layouts appended to one output.
InitConcat ==
    InitWith({"csv", "mysql"}, {FALSE}, {TRUE},
             1..MaxBundle, {TRUE}, {FALSE}, {NoSynth},
             {TRUE}, {FALSE}, {TRUE}, {MaxChunk},
             Tables({TabA, TabB}, {0, 1, MaxRows}, {1, MaxOpt}, {0}))

SpecConcat == InitConcat /\ [][Next]_vars

\* The TDIM keyword of an array column: missing, a 2-D shape, a 1-D shape,
\* a 3-D shape (the third dimension is d3), a string sscanf cannot read.
TDims(d1, d2, d3) ==
    {NoDim,
     [kind |-> "two", d1 |-> d1, d2 |-> d2 * d3],
     [kind |-> "one", d1 |-> d1 * d2 * d3, d2 |-> 0],
     [kind |-> "three", d1 |-> d1, d2 |-> d2],
     [kind |-> "unparsable", d1 |-> 0, d2 |-> 0]}

\* Tables of one array column of d1 * d2 * d3 elements.
DimLayouts(d1, d2, d3) ==
    {<<FCol("a", "TINT", d1 * d2 * d3, 4, td)>> : td \in TDims(d1, d2, d3)}

\* Introspection: array columns with every kind of TDIM keyword, with and
\* without --explode and --concat.
InitDims ==
    InitWith({"csv", "postgres"}, {FALSE}, BOOLEAN,
             {1}, {TRUE}, BOOLEAN, {NoSynth},
             {TRUE}, {FALSE}, {TRUE}, {MaxChunk},
             Tables(DimLayouts(1, 2, 2) \cup {TabA}, {1}, {1}, {0}))

SpecDims == InitDims /\ [][Next]_vars

\* The chunk loop of one file: tables of 0..MaxRows rows, every advised row
\* count, no read error.  The program is sequential and runs on: a step
\* that can be taken is taken.
InitChunks ==
    /\ nfiles = 1
    /\ InitWith({"csv", "mysql"}, {FALSE}, {FALSE},
                {1}, {TRUE}, {FALSE}, {NoSynth, <<FALSE, TRUE, FALSE>>},
                {TRUE}, {FALSE}, {TRUE}, 1..MaxChunk,
                Tables({TabA, TabAS}, 0..MaxRows, 1..MaxOpt, {0}))

SpecChunks == InitChunks /\ [][Next]_vars /\ WF_vars(Next)

\* Read errors: tables of MaxRows rows read in chunks of one row or of the
\* advised size, the read of any one chunk failing (0: none).
InitReadErr ==
    InitWith({"csv", "mysql"}, {FALSE}, BOOLEAN,
             {1}, {TRUE}, {FALSE}, {NoSynth},
             {TRUE}, {FALSE}, {TRUE}, {MaxChunk},
             Tables({TabA}, {MaxRows}, {1, MaxOpt}, 0..MaxRows))

SpecReadErr == InitReadErr /\ [][Next]_vars

\* Columns: every format flag with and without --binary, --explode, the
\* synthetic columns, scalar, string and array columns.
InitCols ==
    InitWith(FormatFlags, BOOLEAN, BOOLEAN,
             {1}, {TRUE}, BOOLEAN, BOOLEAN \X BOOLEAN \X BOOLEAN,
             {TRUE}, {FALSE}, {TRUE}, {MaxChunk},
             Tables({TabA, TabAS, TabV}, {1}, {1}, {0}))

SpecCols == InitCols /\ [][Next]_vars

(***************************************************************************)
(* dl_printCol on its own: one column of one row encoded into the output   *)
(* buffer, for every type, flag and host the parameters of the             *)
(* specification list.                                                     *)
(***************************************************************************)
\* The globals dl_printCol and the encoders read.
Globals ==
    [format |-> format, do_binary |-> do_binary, explode |-> explode,
     mach_swap |-> mach_swap, delimiter |-> delimiter, quote_char |-> quote_char,
     do_strip |-> do_strip, do_quote |-> do_quote, char_signed |-> char_signed,
     addname |-> addname, sidname |-> sidname, ridname |-> ridname,
     serial_number |-> serial_number]

\* Values rand() may give dl_printRandom: 0.0 and 1.0.
RandomDraws == {<<0, 0, 0, 0>>, <<63, 128, 0, 0>>}

PrintCol ==
    /\ pc = "col"
    /\ \E rv \in (IF ridname THEN RandomDraws ELSE {Zeros(sz_float)}) :
          LET r == dl_printCol(SubSeq(data, dp + 1, Len(data)), col, end_char,
                               Globals, rv)
          IN  /\ obuf' = obuf \o r.pre \o r.val \o r.post
              /\ mark' = <<Len(obuf) + Len(r.pre), Len(r.val)>>
              /\ dp' = dp + r.used
              \* the brackets, the delimiters and the synthetic columns are
              \* counted as they are appended
              /\ olen' = olen + Len(r.pre) + r.len + Len(r.post)
    /\ serial_number' = IF end_char = 10 /\ sidname /\ SerialFormat(format)
                         THEN serial_number + 1 ELSE serial_number
    /\ pc' = "colend"
    /\ UNCHANGED <<cfgvars, do_binary, filenum, bnum, colvars, loopvars, out, diag,
                   resvars>>

NextCol == PrintCol

\* Bytes of one table element of a type.
WidthOf(type) ==
    CASE type \in {"TSHORT", "TUSHORT"}           -> sz_short
      [] type \in {"TINT", "TUINT", "TINT32BIT", "TFLOAT"} -> sz_int
      [] type \in {"TLONGLONG", "TDOUBLE", "TCOMPLEX"} -> sz_long
      [] type = "TDBLCOMPLEX"                     -> 2 * sz_double
      [] OTHER                                    -> 1

IntTypes == {"TBYTE", "TSBYTE", "TSHORT", "TUSHORT", "TINT", "TUINT", "TLONGLONG"}

RealTypes == {"TFLOAT", "TDOUBLE"}

\* 0.0, 1.0, -2.0, +Infinity, -Infinity and a NaN, in 4 and in 8 bytes.
Reals(n) ==
    {<<b1, b2>> \o Zeros(n - 2) :
        <<b1, b2>> \in IF n = 4
                       THEN {<<0, 0>>, <<63, 128>>, <<192, 0>>,
                             <<127, 128>>, <<255, 128>>, <<127, 192>>}
                       ELSE {<<0, 0>>, <<63, 240>>, <<192, 0>>,
                             <<127, 240>>, <<255, 240>>, <<127, 248>>}}

\* The values a table element takes in the model, as stored in the file
\* (most significant byte first); few is a pair of them, for the arrays.
Values(type, few) ==
    CASE type \in RealTypes ->
            IF few THEN {Zeros(WidthOf(type)), <<63>> \o Zeros(WidthOf(type) - 1)}
            ELSE Reals(WidthOf(type))
      [] type = "TSTRING"  -> IF few THEN {<<32>>, <<97>>} ELSE {<<0>>, <<32>>, <<97>>}
      [] type = "TLOGICAL" -> {<<84>>, <<70>>}
      [] few -> {Zeros(WidthOf(type) - 1) \o <<1>>, <<255>> \o Zeros(WidthOf(type) - 1)}
      [] type \in {"TBYTE", "TSBYTE"} -> {<<0>>, <<1>>, <<127>>, <<128>>, <<255>>}
      [] type \in {"TSHORT", "TUSHORT"} -> [1..2 -> {0, 1, 128, 255}]
      [] type \in {"TINT", "TUINT"} ->
            [1..4 -> {0, 255}]
               \cup {<<0, 0, 0, 1>>, <<0, 0, 1, 0>>, <<128, 0, 0, 0>>,
                     <<127, 255, 255, 255>>, <<1, 2, 3, 4>>}
      [] OTHER ->
            {Zeros(8), Zeros(7) \o <<1>>, <<128>> \o Zeros(7),
             <<127>> \o [i \in 1..7 |-> 255], [i \in 1..8 |-> 255],
             Zeros(4) \o [i \in 1..4 |-> 255], <<0, 0, 0, 1>> \o Zeros(4),
             <<1, 2, 3, 4, 5, 6, 7, 8>>}

\* The bytes of a column of n elements.
RECURSIVE ColumnData(_, _)
ColumnData(S, n) ==
    IF n = 0 THEN {<<>>} ELSE {x \o y : x \in S, y \in ColumnData(S, n - 1)}

InitColWith(fmts, bins, expls, hosts, quotes, strips, schars, synths, types, repeats, tdims, few) ==
    /\ format \in fmts
    /\ delimiter = (IF format = "TAB_POSTGRES" THEN 9
                    ELSE IF format = "TAB_IPAC" THEN 124 ELSE 44)
    /\ do_binary \in bins
    /\ explode \in expls
    /\ mach_swap \in hosts
    /\ do_quote \in quotes
    /\ do_strip \in strips
    /\ quote_char = DEF_QUOTE
    /\ \E s \in synths : addname = s[1] /\ sidname = s[2] /\ ridname = s[3]
    /\ \E t \in types, r \in repeats, td \in tdims :
          /\ col = ColInfo(FCol("v", t, r, WidthOf(t), td), 1, explode, do_quote, TRUE)
          /\ data \in ColumnData(Values(t, few), r)
    /\ char_signed \in (IF col.type \in {"TBYTE", "TSBYTE"} THEN schars ELSE {TRUE})
    /\ end_char \in {delimiter, 10}
    /\ serial_number \in (IF sidname THEN 0..1 ELSE {0})
    /\ dp = 0 /\ obuf = <<>> /\ mark = <<0, 0>> /\ olen = 0
    /\ fptr = "null" /\ ofd = "null" /\ allocated = FALSE
    /\ pc = "col"
    /\ concat = FALSE /\ bundle = 1 /\ nfiles = 0 /\ files = <<>>
    /\ do_load = TRUE /\ noop = FALSE /\ header = TRUE /\ chunk_size = MaxChunk
    /\ filenum = 0 /\ bnum = 0
    /\ inColumns = [i \in 1..NumCols |-> ZeroCol]
    /\ numInCols = 0 /\ numOutCols = 0
    /\ jj = 0 /\ nelem = 0 /\ firstchar = 0 /\ totrows = 0 /\ reads = <<>>
    /\ out = [o \in 0..(MaxFiles - 1) |-> <<>>]
    /\ diag = <<>>

\* Scalar columns of the numeric types, text and binary, both hosts.
InitNumbers ==
    InitColWith({"TAB_DELIMITED", "TAB_IPAC", "TAB_POSTGRES", "TAB_MYSQL",
                 "TAB_SQLITE"},
                BOOLEAN, {FALSE}, BOOLEAN, {TRUE}, {TRUE}, BOOLEAN,
                {NoSynth, <<FALSE, TRUE, FALSE>>},
                IntTypes \cup RealTypes, {1}, {NoDim}, FALSE)

SpecNumbers == InitNumbers /\ [][NextCol]_vars

\* The largest number of elements of the array columns of the model.
MaxRepeat == 4

\* The TDIM keywords of the array columns: none, or a 2-D shape.
Shapes ==
    {NoDim} \cup {[kind |-> "two", d1 |-> d1, d2 |-> d2] : d1, d2 \in 1..MaxRepeat}

ArrayTypes == IntTypes \cup RealTypes \cup {"TLOGICAL"}

\* Array columns of the numeric and logical types written in text mode with
\* explode on; a shape describes all the elements of its column.
InitExplode ==
    /\ InitColWith({"TAB_DELIMITED", "TAB_IPAC", "TAB_POSTGRES", "TAB_MYSQL"},
                   {FALSE}, {TRUE}, BOOLEAN, {TRUE}, {TRUE}, BOOLEAN, {NoSynth},
                   ArrayTypes, 2..MaxRepeat, Shapes, TRUE)
    /\ col.nrows * col.ncols = col.repeat

SpecExplode == InitExplode /\ [][NextCol]_vars

\* The largest number of elements of the columns handed to the dispatch.
MaxElems == 2

\* The element types dl_printCol dispatches on.
AllTypes ==
    ArrayTypes \cup {"TSTRING", "TINT32BIT", "TBIT", "TCOMPLEX", "TDBLCOMPLEX"}

\* The TDIM keywords of a column of r elements: none, a 2-D shape that
\* describes the r elements, or the 1-D shape (r).
ShapesOf(r) ==
    {NoDim, [kind |-> "one", d1 |-> r, d2 |-> 0]}
        \cup {[kind |-> "two", d1 |-> d1, d2 |-> d2] :
                 <<d1, d2>> \in {x \in (1..r) \X (1..r) : x[1] * x[2] = r}}

\* Columns of every element type, scalar and array, text and binary, packed
\* and exploded.  The SQL formats never reach the encoders in binary mode
\* with an array column.
InitDispatch ==
    /\ \E r \in 1..MaxElems :
          InitColWith({"TAB_DELIMITED", "TAB_IPAC", "TAB_POSTGRES", "TAB_MYSQL"},
                      BOOLEAN, BOOLEAN, {TRUE}, {TRUE}, {TRUE}, {TRUE}, {NoSynth},
                      AllTypes, {r}, ShapesOf(r), TRUE)
    /\ ~(TAB_DBTYPE(format) /\ do_binary /\ HasArrayCol(<<col>>, 1))

SpecDispatch == InitDispatch /\ [][NextCol]_vars

\* The last (and only) column of the rows of one-column tables, with every
\* choice of synthetic columns, text and binary.
InitLastCol ==
    /\ InitColWith({"TAB_DELIMITED", "TAB_IPAC", "TAB_POSTGRES", "TAB_MYSQL"},
                   BOOLEAN, {FALSE}, {TRUE}, {TRUE}, {TRUE}, {TRUE},
                   BOOLEAN \X BOOLEAN \X BOOLEAN,
                   {"TBYTE", "TSBYTE", "TLOGICAL", "TSTRING", "TSHORT", "TINT",
                    "TDOUBLE"},
                   {1}, {NoDim}, FALSE)
    /\ end_char = 10

SpecLastCol == InitLastCol /\ [][NextCol]_vars

\* The declared width of the character columns of the model.
StrLen == 3

\* Character columns holding blanks, letters and NUL padding, text and
\* binary, with and without stripping and quoting (--sql=postgres clears
\* do_quote).
InitStrings ==
    \/ InitColWith({"TAB_DELIMITED", "TAB_IPAC", "TAB_MYSQL"},
                   BOOLEAN, {FALSE}, BOOLEAN, BOOLEAN, BOOLEAN, {TRUE},
                   {NoSynth}, {"TSTRING"}, {StrLen}, {NoDim}, FALSE)
    \/ InitColWith({"TAB_POSTGRES"},
                   BOOLEAN, {FALSE}, BOOLEAN, {FALSE}, BOOLEAN, {TRUE},
                   {NoSynth}, {"TSTRING"}, {StrLen}, {NoDim}, FALSE)

SpecStrings == InitStrings /\ [][NextCol]_vars

(***************************************************************************)
(* Reading the outputs.                                                    *)
(***************************************************************************)
Outputs == 0..(MaxFiles - 1)

Done == pc = "main" /\ filenum = nfiles

IsRow(x) == x.t = "row"

Rows(s) == SelectSeq(s, IsRow)

\* The diagnostic d was printed for input number f.
Noted(d, f) == \E k \in 1..Len(diag) : diag[k] = [t |-> d, file |-> f]

MySQLish == format \in {"TAB_MYSQL", "TAB_SQLITE"}

(***************************************************************************)
(* C1.  For a file that reaches row streaming in an SQL format with load   *)
(* enabled, the bundle closer is written after the file's rows exactly     *)
(* when bnum = bundle - 1, or concat is on and filenum = nfiles - 1 (so    *)
(* with bundle = 1 after every file).                                      *)
(***************************************************************************)
CloserAppended(s, t) == Len(t) = Len(s) + 1 /\ t[Len(t)].t = "close"

C1_CloserAtBundleEnd ==
    [][ (pc = "term" /\ TAB_DBTYPE(format) /\ do_load)
        => ( CloserAppended(out[OutOf(filenum)], out'[OutOf(filenum)])
             <=> (bnum = bundle - 1 \/ (concat /\ filenum = nfiles - 1)) ) ]_vars

(***************************************************************************)
(* C2.  A Postgres binary output is, after the COPY line: the signature    *)
(* and header extension once, then rows (a field count followed by that    *)
(* many fields), then the 16-bit -1 trailer as its last bytes; no          *)
(* signature after the first row, the trailer never missing.               *)
(***************************************************************************)
BinaryStream(s) ==
    /\ Len(s) >= 2
    /\ s[1].t = "open" /\ s[1].bin
    /\ s[Len(s)].t = "close" /\ s[Len(s)].bin
    /\ \A k \in 2..(Len(s) - 1) :
          s[k].t = "row" /\ s[k].bin /\ s[k].count = s[k].nfields

C2_BinaryStreamWellFormed ==
    (Done /\ format = "TAB_POSTGRES" /\ do_binary)
        => \A o \in Outputs : out[o] # <<>> => BinaryStream(out[o])

(***************************************************************************)
(* C3.  Under concat the output holds, in file order and in row order      *)
(* within each file, every row of every file that passed the schema check  *)
(* and no row of a file that failed it; when all files have the same       *)
(* columns no file fails it.                                               *)
(***************************************************************************)
AllTables ==
    \A f \in 1..nfiles : files[f].kind = "table" /\ files[f].errAt = 0

SameLayout == \A f \in 1..nfiles : files[f].cols = files[1].cols

FileRows(f) == [k \in 1..files[f + 1].nrows |-> <<f, k>>]

RECURSIVE ExpectedRows(_)
ExpectedRows(n) ==
    IF n = 0 THEN <<>>
    ELSE ExpectedRows(n - 1)
         \o (IF Noted("mismatch", n - 1) THEN <<>> ELSE FileRows(n - 1))

RowIds(s) == [k \in 1..Len(Rows(s)) |-> <<Rows(s)[k].file, Rows(s)[k].row>>]

C3_ConcatRows ==
    (pc = "main" /\ concat /\ do_load /\ ~noop /\ AllTables)
        => /\ RowIds(out[0]) = ExpectedRows(filenum)
           /\ SameLayout => \A f \in 0..(nfiles - 1) : ~Noted("mismatch", f)

C3_Witness ==
    /\ Done /\ concat /\ nfiles = 3 /\ AllTables
    /\ Noted("mismatch", 1) /\ ~Noted("mismatch", 2)
    /\ files[1].nrows >= 2 /\ files[2].nrows >= 2 /\ files[3].nrows >= 2
    /\ Len(reads) >= 2

(***************************************************************************)
(* C4.  In SQL formats, when an opener has been written and a later file   *)
(* of the run fails, the closer is still written by the time the bundle    *)
(* end is reached: no run ends with an opened statement left unterminated. *)
(* Stated for bundles of more than one file appended to one output.        *)
(***************************************************************************)
FailKinds == {"noaccess", "nonfits", "mismatch", "openfail", "readerr"}

FailedAfter(f) ==
    \E k \in 1..Len(diag) : diag[k].t \in FailKinds /\ diag[k].file > f

C4_CloserAfterFailure ==
    (Done /\ TAB_DBTYPE(format) /\ concat /\ bundle > 1)
        => \A k \in 1..Len(out[0]) :
              (out[0][k].t = "open" /\ FailedAfter(out[0][k].file))
                 => \E m \in (k + 1)..Len(out[0]) : out[0][m].t = "close"

(***************************************************************************)
(* C5.  In MySQL / SQLite output there is exactly one comma between two    *)
(* consecutive tuples of a bundle, across chunks and across files, and no  *)
(* comma after the last tuple of the bundle.                               *)
(***************************************************************************)
C5_OneCommaBetweenTuples ==
    MySQLish =>
        \A o \in Outputs : \A k \in 1..Len(out[o]) :
            /\ (out[o][k].t = "row" /\ k < Len(out[o]))
                  => out[o][k + 1].t # "row"
            /\ (out[o][k].t = "comma" /\ k < Len(out[o]))
                  => out[o][k + 1].t = "row"
            /\ (out[o][k].t = "comma" /\ k = Len(out[o])) => ~Done

(***************************************************************************)
(* C6.  In Postgres binary output the field count written before a row     *)
(* equals numOutCols and equals the number of fields written for the row.  *)
(***************************************************************************)
C6_FieldCount ==
    format = "TAB_POSTGRES" =>
        \A o \in Outputs : \A k \in 1..Len(out[o]) :
            (out[o][k].t = "row" /\ out[o][k].bin)
               => /\ out[o][k].count = numOutCols
                  /\ out[o][k].count = out[o][k].nfields

(***************************************************************************)
(* C7.  The serial values emitted over the run are 0, 1, 2, ... in output  *)
(* row order, without reset or gap at chunk or file boundaries.  Binary    *)
(* mode is taken with Postgres, the format it is meant for.                *)
(***************************************************************************)
RECURSIVE RowsUpTo(_)
RowsUpTo(o) == IF o < 0 THEN <<>> ELSE RowsUpTo(o - 1) \o Rows(out[o])

C7_SerialContiguous ==
    (sidname /\ (do_binary => format = "TAB_POSTGRES")) =>
        \A k \in 1..Len(RowsUpTo(MaxFiles - 1)) :
            RowsUpTo(MaxFiles - 1)[k].sid # -1
               => RowsUpTo(MaxFiles - 1)[k].sid = k - 1

(***************************************************************************)
(* C8.  Every chunk read has min(optimal, requested chunk, remaining rows) *)
(* rows.                                                                   *)
(***************************************************************************)
Min3(a, b, c) ==
    IF a <= b /\ a <= c THEN a ELSE IF b <= c THEN b ELSE c

C8_ChunkIsMin ==
    \A k \in 1..Len(reads) :
        reads[k].nelem = Min3(reads[k].optimal, chunk_size, reads[k].remaining)

(***************************************************************************)
(* C9.  bnum advances after a file only if the file produced output: a     *)
(* file that is skipped or fails before writing any row (schema mismatch,  *)
(* unopenable table, image HDU, no-op) leaves bnum unchanged.              *)
(***************************************************************************)
NoOutputKinds == {"mismatch", "openfail", "image", "noop"}

C9_BnumOnlyOnOutput ==
    [][ (pc = "main" /\ Len(diag') = Len(diag) + 1
            /\ diag'[Len(diag')].t \in NoOutputKinds)
        => bnum' = bnum ]_vars

(***************************************************************************)
(* C10.  Whenever a row is encoded in binary mode the format is POSTGRES,  *)
(* bundle is 1 and no non-string input column has repeat > 1, whatever     *)
(* format flag came with --binary.                                         *)
(***************************************************************************)
FileHasArray(f) ==
    \E c \in 1..Len(files[f + 1].cols) :
        files[f + 1].cols[c].type # "TSTRING" /\ files[f + 1].cols[c].repeat > 1

C10_BinaryImpliesPostgres ==
    \A o \in Outputs : \A k \in 1..Len(out[o]) :
        (out[o][k].t = "row" /\ out[o][k].bin)
           => /\ format = "TAB_POSTGRES"
              /\ bundle = 1
              /\ ~FileHasArray(out[o][k].file)

(***************************************************************************)
(* C11.  With --sql=postgres --binary, a table with a non-string column of *)
(* repeat > 1 has binary mode switched off in the prologue: the opener,    *)
(* every row and the closer written for that file are all in text form.    *)
(***************************************************************************)
Framing == {"open", "row", "close"}

C12_HeaderIffFlag ==
    format = "TAB_DELIMITED" =>
        \A o \in Outputs :
            out[o] # <<>> => (out[o][1].t = "hdr" <=> header)

(***************************************************************************)
(* Reading the output buffer of one dl_printCol call.                      *)
(***************************************************************************)
Encoded == pc = "colend"

\* The bytes the type encoder wrote.
Value == SubSeq(obuf, mark[1] + 1, mark[1] + mark[2])

\* The bytes of the column in the table row.
Source == SubSeq(data, 1, WidthOf(col.type) * col.repeat)

SignedTypes == {"TSBYTE", "TSHORT", "TINT", "TLONGLONG"}

(***************************************************************************)
(* Reading a decimal token back as a number.                               *)
(***************************************************************************)
\* b * 10 + carry on the digits b[1..n].
RECURSIVE MulAdd10(_, _, _)
MulAdd10(b, n, carry) ==
    IF n = 0 THEN <<>>
    ELSE LET cur == b[n] * 10 + carry
         IN  MulAdd10(b, n - 1, cur \div 256) \o <<cur % 256>>

IsDigit(c) == c >= 48 /\ c <= 57

RECURSIVE ParseDigits(_, _, _)
ParseDigits(tok, k, acc) ==
    IF k > Len(tok) \/ ~IsDigit(tok[k]) THEN acc
    ELSE ParseDigits(tok, k + 1, MulAdd10(acc, Len(acc), tok[k] - 48))

RECURSIVE SkipSpaces(_, _)
SkipSpaces(tok, k) ==
    IF k <= Len(tok) /\ tok[k] = 32 THEN SkipSpaces(tok, k + 1) ELSE k

\* Reading a decimal token back: blanks, an optional sign, digits.
ParseDecimal(tok) ==
    LET k   == SkipSpaces(tok, 1)
        neg == k <= Len(tok) /\ tok[k] = 45
    IN  Num(neg, ParseDigits(tok, IF neg THEN k + 1 ELSE k, Zeros(8)))

(***************************************************************************)
(* C13.  In text mode, for every integer column type and every source      *)
(* value, on a host of either byte order, the decimal token the encoder    *)
(* writes, read back, is the number stored big-endian in the source (so    *)
(* UINT values of 2^31 or more read back non-negative).                    *)
(***************************************************************************)
C13_IntegerRoundTrip ==
    (Encoded /\ ~do_binary /\ col.type \in IntTypes /\ col.repeat = 1)
        => ParseDecimal(Value) = NumOf(Source, col.type \in SignedTypes)

\* The settings of the run on a host of the other byte order.
OtherHost == [Globals EXCEPT !.mach_swap = ~mach_swap]

\* The types whose elements are wider than a byte, and so are byte-swapped.
SwappedTypes == {"TSHORT", "TINT", "TLONGLONG", "TFLOAT", "TDOUBLE"}

(***************************************************************************)
(* C14.  For the same column bytes and the same options, the bytes the     *)
(* encoder appends to the output buffer (the value, and the serial column  *)
(* at the end of a row) are the same whether the host is little-endian or  *)
(* big-endian, for SHORT, INT, LONGLONG, FLOAT and DOUBLE columns, in text *)
(* and in binary mode.                                                     *)
(***************************************************************************)
C14_HostIndependent ==
    [][(pc = "col" /\ col.type \in SwappedTypes)
          => \E rv \in RandomDraws \cup {Zeros(sz_float)} :
                LET r == dl_printCol(SubSeq(data, dp + 1, Len(data)), col,
                                     end_char, OtherHost, rv)
                IN  obuf' = obuf \o r.pre \o r.val \o r.post]_vars

\* A string without its leading and its trailing blanks.
RECURSIVE NoLeadingBlanks(_)
NoLeadingBlanks(str) ==
    IF str # <<>> /\ Head(str) = 32 THEN NoLeadingBlanks(Tail(str)) ELSE str

NoBlanks(str) == Rev(NoLeadingBlanks(Rev(NoLeadingBlanks(str))))

\* The string between the quote characters, or the whole value without them.
StringBody == IF do_quote THEN SubSeq(Value, 2, Len(Value) - 1) ELSE Value

\* The column bytes are characters: no NUL among them.
NoNul == \A i \in 1..Len(Source) : Source[i] # 0

(***************************************************************************)
(* C15.  In text mode the body of a STRING value is the column bytes       *)
(* without their leading and trailing blanks when strip is enabled, and    *)
(* the column bytes themselves, blanks kept, when it is disabled -- with   *)
(* quoting on (the body sits between two quote characters) and with        *)
(* quoting off.                                                            *)
(***************************************************************************)
C15_StripIffEnabled ==
    (Encoded /\ ~do_binary /\ col.type = "TSTRING" /\ NoNul)
        => /\ StringBody = (IF do_strip THEN NoBlanks(Source) ELSE Source)
           /\ do_quote => (Len(Value) >= 2 /\ Value[1] = quote_char
                                           /\ Value[Len(Value)] = quote_char)

\* The four bytes of a length prefix, as a number below 256.
PrefixOf(v) == IF Len(v) >= 4 /\ v[1] = 0 /\ v[2] = 0 /\ v[3] = 0 THEN v[4] ELSE -1

(***************************************************************************)
(* C16.  In binary mode a STRING value is one field: a 4-byte big-endian   *)
(* length equal to the declared repeat of the column, followed by exactly  *)
(* the repeat bytes of the column, unchanged, whatever they are (blanks    *)
(* and NUL padding included).                                              *)
(***************************************************************************)
C16_BinaryStringVerbatim ==
    (Encoded /\ do_binary /\ col.type = "TSTRING")
        => /\ PrefixOf(Value) = col.repeat
           /\ SubSeq(Value, 5, Len(Value)) = Source

\* The token of an infinity as a database reads it: Infinity or -Infinity,
\* between single quotes for MySQL and SQLite.
InfinityToken(negative, fmt) ==
    LET word == (IF negative THEN <<45>> ELSE <<>>)
                   \o <<73, 110, 102, 105, 110, 105, 116, 121>>
    IN  IF fmt = "TAB_POSTGRES" THEN word ELSE <<39>> \o word \o <<39>>

(***************************************************************************)
(* C17.  In text mode a FLOAT or DOUBLE element holding +Infinity is       *)
(* written as Infinity and one holding -Infinity as -Infinity for          *)
(* Postgres, and as the same words between single quotes for MySQL and     *)
(* SQLite; so the two infinities never give the same token.                *)
(***************************************************************************)
C17_InfinityTokens ==
    (/\ Encoded /\ ~do_binary /\ col.type \in RealTypes /\ col.repeat = 1
     /\ format \in {"TAB_POSTGRES", "TAB_MYSQL", "TAB_SQLITE"}
     /\ isinf(Source) # 0)
        => Value = InfinityToken(isinf(Source) < 0, format)

\* The tokens of a value: the pieces between the delimiters.
RECURSIVE Tokens(_, _)
Tokens(str, delim) ==
    IF \A i \in 1..Len(str) : str[i] # delim THEN <<str>>
    ELSE LET k == CHOOSE i \in 1..Len(str) :
                     str[i] = delim /\ \A h \in 1..(i - 1) : str[h] # delim
         IN  <<SubSeq(str, 1, k - 1)>> \o Tokens(SubSeq(str, k + 1, Len(str)), delim)

\* The descriptor and the value of the same column written packed.
PackedCol == [col EXCEPT !.ndim = 1, !.nrows = 1, !.ncols = col.repeat]

PackedValue == EncodeCol(data, PackedCol, [Globals EXCEPT !.explode = FALSE]).out

\* The element an exploded column name stands for, counted row by row.
ElementOf(name) ==
    IF Len(name) = 3 THEN (name[2] - 1) * col.ncols + name[3] ELSE name[2]

Skipped(f) == files[f].kind \in {"noaccess", "nonfits"}

\* Input number f is a readable table with rows.
Convertible(f) ==
    files[f].kind = "table" /\ files[f].errAt = 0 /\ files[f].nrows >= 1

\* The inputs are skipped files and readable tables of one layout, and the
\* run converts (no --noop, no --noload).
SkipCase ==
    /\ do_load /\ ~noop
    /\ \A f \in 1..nfiles : Skipped(f) \/ Convertible(f)
    /\ \A f, g \in 1..nfiles :
          (Convertible(f) /\ Convertible(g)) => files[f].cols = files[g].cols
    /\ \E f \in 1..nfiles : Skipped(f)

\* Some output holds a token of input number f.
Contributes(f) ==
    \E o \in Outputs : \E k \in 1..Len(out[o]) : out[o][k].file = f - 1

\* The output of input number f holds a row of it.
Converted(f) ==
    \E k \in 1..Len(out[OutOf(f - 1)]) :
        IsRow(out[OutOf(f - 1)][k]) /\ out[OutOf(f - 1)][k].file = f - 1

(***************************************************************************)
(* C19.  When the run is over, an input that cannot be accessed or is not  *)
(* a FITS/gzip file has contributed nothing to any output, and every other *)
(* input, a readable table, has its rows in its output -- wherever the     *)
(* skipped input stands in the list, the first place under --concat        *)
(* included.                                                               *)
(***************************************************************************)
C19_SkipAndContinue ==
    (Done /\ SkipCase)
        => \A f \in 1..nfiles :
              /\ Skipped(f) => ~Contributes(f)
              /\ Convertible(f) => Converted(f)

\* The rows of input number f (0..nfiles-1) its output holds.
WrittenRows(f) ==
    {out[OutOf(f)][k].row :
        k \in {h \in 1..Len(out[OutOf(f)]) :
                  IsRow(out[OutOf(f)][h]) /\ out[OutOf(f)][h].file = f}}

\* The chunk read of the file under way has just failed.
ReadFailed == pc = "term" /\ Noted("readerr", filenum)

RECURSIVE RowsBefore(_)
RowsBefore(k) == IF k <= 1 THEN 0 ELSE RowsBefore(k - 1) + reads[k - 1].nelem

\* The row numbers of input number f (0..nfiles-1) in its output, in the
\* order they were written.
RowNumbers(f) ==
    LET OfFile(x) == IsRow(x) /\ x.file = f
        toks      == SelectSeq(out[OutOf(f)], OfFile)
    IN  [k \in 1..Len(toks) |-> toks[k].row]

\* The reads of the file under way ask for rows x row_bytes bytes at the
\* byte after the rows already read, and the rows written are 1..totrows in
\* order, all of the table once the loop is left.
ChunksInOrder ==
    (filenum < nfiles /\ pc \in {"chunk", "term"}) =>
        LET f      == files[filenum + 1]
            naxis1 == RowBytes(f.cols, Len(f.cols))
        IN  /\ \A k \in 1..Len(reads) :
                  /\ reads[k].nelem >= 1
                  /\ reads[k].nbytes = reads[k].nelem * naxis1
                  /\ reads[k].firstchar = 1 + RowsBefore(k) * naxis1
            /\ totrows = RowsBefore(Len(reads) + 1)
            /\ RowNumbers(filenum) = [k \in 1..totrows |-> k]
            /\ pc = "term" => totrows = f.nrows

(***************************************************************************)
(* C21.  For every table of nrows >= 0 rows and every advised row count    *)
(* >= 1 the chunk loop ends; the chunks cover rows 1..nrows in increasing  *)
(* order, each row written once; each read asks for rows_in_chunk *        *)
(* row_bytes bytes; and the byte cursor of each read is 1 + (rows already  *)
(* read) * row_bytes.                                                      *)
(***************************************************************************)
C21_ChunksPartitionRows == []ChunksInOrder /\ <>Done

\* A table of MaxRows rows has been read in more than one chunk.
C21_Witness ==
    /\ pc = "term" /\ Len(reads) >= 2
    /\ totrows = MaxRows /\ RowNumbers(filenum) = [k \in 1..MaxRows |-> k]

(***************************************************************************)
(* C22.  For every column dl_printCol is called with -- every element      *)
(* type, the unsupported BIT, COMPLEX and DBLCOMPLEX included, text and    *)
(* binary, exploded or not -- the pointer it returns is the pointer it was *)
(* given plus width * repeat bytes.                                        *)
(***************************************************************************)
C22_PointerAdvance == Encoded => dp = col.width * col.repeat

(***************************************************************************)
(* C23.  After introspection every input column descriptor has ndim 1 or 2 *)
(* and repeat = nrows * ncols, whatever the TDIM keyword of the column     *)
(* holds: a shape (r,c), a shape of one number, a shape of three numbers,  *)
(* a string that cannot be read, or no keyword at all.                     *)
(***************************************************************************)
C23_ShapeInvariant ==
    \A i \in 1..numInCols :
        /\ inColumns[i].ndim \in {1, 2}
        /\ inColumns[i].repeat = inColumns[i].nrows * inColumns[i].ncols

\* Reading the tokens s[k..] of an output with a bundle open or not: an
\* opener only when none is open, a closer and a row only when one is.
RECURSIVE Alternates(_, _, _)
Alternates(s, k, opened) ==
    IF k > Len(s) THEN TRUE
    ELSE CASE s[k].t = "open"  -> ~opened /\ Alternates(s, k + 1, TRUE)
           [] s[k].t = "close" -> opened /\ Alternates(s, k + 1, FALSE)
           [] s[k].t = "row"   -> opened /\ Alternates(s, k + 1, opened)
           [] OTHER            -> Alternates(s, k + 1, opened)

(***************************************************************************)
(* C24.  In the SQL formats with load enabled, the openers and closers     *)
(* written to one output alternate, opener first: no opener while a bundle *)
(* is open, no closer while none is, and every row between an opener and   *)
(* its closer -- for every number of files, bundle size and concat         *)
(* setting.                                                                *)
(***************************************************************************)
C24_OpenersClosersAlternate ==
    (TAB_DBTYPE(format) /\ do_load) =>
        \A o \in Outputs : Alternates(out[o], 1, FALSE)

(***************************************************************************)
(* C25.  After an encoder call the running output length olen is the       *)
(* number of bytes appended to the output buffer since the chunk started   *)
(* (optr - obuf), for every column type, in text and in binary mode.       *)
(***************************************************************************)
C25_OlenTracksBuffer == Encoded => olen = Len(obuf)

\* Input number f (0..nfiles-1) has been dealt with.
Passed(f) == filenum > f

(***************************************************************************)
(* C26.  Under concat, a second or later file whose table has fewer or     *)
(* more columns than the table of the first file is reported as a          *)
(* mismatch and skipped (none of its rows is written), also when the       *)
(* columns the two tables share are the same.                              *)
(***************************************************************************)
C26_ColumnCountMismatch ==
    concat =>
        \A f \in 1..(nfiles - 1) :
            (Passed(f) /\ Len(files[f + 1].cols) # Len(files[1].cols))
                => (Noted("mismatch", f) /\ WrittenRows(f) = {})

(***************************************************************************)
(* C27.  In every text format each row written for the file under way      *)
(* holds exactly numOutCols values, one for each declared output column    *)
(* (the source columns, then add, sid and rid when they are configured).   *)
(***************************************************************************)
C27_RowMatchesColumns ==
    (filenum < nfiles /\ pc \in {"chunk", "term"}) =>
        \A k \in 1..Len(out[OutOf(filenum)]) :
            LET x == out[OutOf(filenum)][k]
            IN  (IsRow(x) /\ x.file = filenum /\ ~x.bin)
                    => x.nfields = numOutCols

(***************************************************************************)
(* C28.  Whenever dl_fits2db has returned -- after the last chunk, after a *)
(* schema mismatch under concat, with --noload, after a chunk read error,  *)
(* for an image HDU -- the input handle and the output file it opened are  *)
(* closed, so main() never holds an open handle between two files.         *)
(***************************************************************************)
C28_HandlesClosedOnReturn ==
    pc = "main" => (fptr # "open" /\ ofd # "open" /\ ~allocated)

\* The allocated size of obuf for a chunk of one advised row of a table
\* whose only column is col: nbytes * 8, nbytes = nelem * NAXIS1.
ObufSize == (col.width * col.repeat) * 8

(***************************************************************************)
(* C29.  The bytes appended to the output buffer while a chunk is          *)
(* transcoded never exceed its allocated size, 8 * optimal_rows *          *)
(* row_bytes: here for a chunk of one row of a one-column table, after the *)
(* call of dl_printCol for that column (synthetic columns, quoting and row *)
(* punctuation included).                                                  *)
(***************************************************************************)
C29_OutputFitsBuffer ==
    (Encoded /\ end_char = 10 /\ col.colnum = 1) => Len(obuf) <= ObufSize

(***************************************************************************)
(* C30. A file whose columns do not match under concat is skipped: the     *)
(* step that reports the mismatch leaves the input column vector, the      *)
(* column counts, the serial counter and every output as they were, and    *)
(* the recorded columns keep agreeing with the first file's on all the     *)
(* compared fields, so the files after it are compared with that schema.   *)
(***************************************************************************)
MismatchStep ==
    /\ pc = "main"
    /\ concat
    /\ diag' = Append(diag, [t |-> "mismatch", file |-> filenum])

FirstSchema ==
    GetColInfo(files[1].cols, [i \in 1..NumCols |-> ZeroCol], explode, do_quote)

FirstSchemaKept ==
    (concat /\ filenum >= 1) =>
        \A i \in 1..Len(files[1].cols) : ~ColMismatch(inColumns[i], FirstSchema[i])

C30_MismatchLeavesState ==
    /\ [][MismatchStep => /\ inColumns' = inColumns
                          /\ numInCols' = numInCols
                          /\ numOutCols' = numOutCols
                          /\ serial_number' = serial_number
                          /\ out' = out]_vars
    /\ []FirstSchemaKept

C30_Witness ==
    /\ nfiles = 3
    /\ pc = "main"
    /\ filenum = 3
    /\ Noted("mismatch", 1)
    /\ ~Noted("mismatch", 2)
    /\ WrittenRows(0) # {}
    /\ WrittenRows(1) = {}
    /\ WrittenRows(2) # {}

====
